---- MODULE Spec2Model ----
(***************************************************************************)
(* A model of GoTest: the `go test -json` event parser of boot.py          *)
(* (TestEvent, RawTestOutput, Test.from_events, parse_combined_output,     *)
(* Test.from_test_output) and the process runner of plugin/exec.py         *)
(* (AsyncProcess).                                                         *)
(*                                                                         *)
(* Texts are TLA+ strings; the regular expressions of boot.py are          *)
(* operators over the characters of a string.                              *)
(***************************************************************************)
EXTENDS Integers, Sequences, FiniteSets, TLC

(***************************************************************************)
(* Strings                                                                 *)
(***************************************************************************)

\* Python's None (for Optional[str] fields); no text of the model equals it.
None == "<None>"

NL == "\n"

\* s[i-1] in Python: the i-th character of s (1-based), "" out of range.
Ch(s, i) == IF i >= 1 /\ i <= Len(s) THEN SubSeq(s, i, i) ELSE ""

\* s[i-1:] in Python.
From(s, i) == IF i > Len(s) THEN "" ELSE SubSeq(s, i, Len(s))

\* s.startswith(lit, i-1)
StartsWithAt(s, i, lit) ==
    /\ i + Len(lit) - 1 <= Len(s)
    /\ SubSeq(s, i, i + Len(lit) - 1) = lit

StartsWith(s, lit) == StartsWithAt(s, 1, lit)

Digits == {"0", "1", "2", "3", "4", "5", "6", "7", "8", "9"}

\* the characters \s matches (str pattern, ASCII part)
WhiteSpace == {" ", "\t", "\n", "\r", "\f"}

\* the number of characters of s, from position i on, that are in set cs
RECURSIVE RunLen(_, _, _)
RunLen(s, i, cs) ==
    IF i <= Len(s) /\ Ch(s, i) \in cs THEN 1 + RunLen(s, i + 1, cs) ELSE 0

\* True when s[i..j] holds no newline ('.' does not match "\n")
NoNewline(s, i, j) == \A x \in i..j : Ch(s, x) # NL

DigitVal(c) ==
    CASE c = "0" -> 0 [] c = "1" -> 1 [] c = "2" -> 2 [] c = "3" -> 3
      [] c = "4" -> 4 [] c = "5" -> 5 [] c = "6" -> 6 [] c = "7" -> 7
      [] c = "8" -> 8 [] c = "9" -> 9

\* int(s) for a string of decimal digits
RECURSIVE ParseInt(_)
ParseInt(s) ==
    IF Len(s) = 0 THEN 0
    ELSE 10 * ParseInt(SubSeq(s, 1, Len(s) - 1)) + DigitVal(Ch(s, Len(s)))

DigitStr(d) ==
    CASE d = 0 -> "0" [] d = 1 -> "1" [] d = 2 -> "2" [] d = 3 -> "3"
      [] d = 4 -> "4" [] d = 5 -> "5" [] d = 6 -> "6" [] d = 7 -> "7"
      [] d = 8 -> "8" [] d = 9 -> "9"

\* str(n) for n >= 0
RECURSIVE IntToStr(_)
IntToStr(n) ==
    IF n < 10 THEN DigitStr(n) ELSE IntToStr(n \div 10) \o DigitStr(n % 10)

\* s.rstrip("\n")
RECURSIVE RStripNL(_)
RStripNL(s) ==
    IF Len(s) > 0 /\ Ch(s, Len(s)) = NL
    THEN RStripNL(SubSeq(s, 1, Len(s) - 1))
    ELSE s

Min(S) == CHOOSE x \in S : \A y \in S : x <= y
Max(S) == CHOOSE x \in S : \A y \in S : x >= y

(***************************************************************************)
(* The line matchers (boot.py:47-51)                                       *)
(***************************************************************************)

\* ":<digits>: " at position i of s: the position after it, or 0.
\* \d+ is greedy and what follows is not a digit, so the run is maximal.
LineNoEnd(s, i) ==
    LET n == RunLen(s, i + 1, Digits)
    IN  IF Ch(s, i) = ":" /\ n >= 1 /\ StartsWithAt(s, i + 1 + n, ": ")
        THEN i + n + 3
        ELSE 0

\* FILENAME_LINE_FAILURE_RE = ^[ ]{1,}(.+?\.go):(\d+): (.*)
\* The candidates <<k, e>>: k leading spaces taken by [ ]{1,}, the file name
\* s[k+1..e] (at least one character before ".go", no newline).
FailureCands(s) ==
    LET n == RunLen(s, 1, {" "})
    IN  { c \in (1..n) \X (1..Len(s)) :
            /\ c[2] >= c[1] + 4
            /\ SubSeq(s, c[2] - 2, c[2]) = ".go"
            /\ NoNewline(s, c[1] + 1, c[2])
            /\ LineNoEnd(s, c[2] + 1) # 0 }

FILENAME_LINE_FAILURE_RE(s) == FailureCands(s) # {}

\* Of the candidates cs, the one the backtracking search finds first:
\* [ ]{1,} is greedy (the largest k), .+? is lazy (then the smallest e).
FirstCand(cs) ==
    CHOOSE c \in cs : \A d \in cs : d[1] < c[1] \/ (d[1] = c[1] /\ d[2] >= c[2])

\* (.*) from position m on: up to the first newline
UpToNewline(rest) ==
    SubSeq(rest, 1, RunLen(rest, 1, {Ch(rest, x) : x \in 1..Len(rest)} \ {NL}))

\* the groups of the match with k leading spaces and the file name ending at
\* e, the line number ending before position m - 2
MatchGroups(s, k, e, m) ==
    [matched |-> TRUE,
     filename |-> SubSeq(s, k + 1, e),
     line |-> ParseInt(SubSeq(s, e + 2, m - 3)),
     message |-> UpToNewline(From(s, m))]

MatchOf(s, c) == MatchGroups(s, c[1], c[2], LineNoEnd(s, c[2] + 1))

FailureMatchIn(s, cs) ==
    IF cs = {}
    THEN [matched |-> FALSE, filename |-> "", line |-> 0, message |-> ""]
    ELSE MatchOf(s, FirstCand(cs))

\* FILENAME_LINE_FAILURE_RE.match(s): its groups, matched FALSE for None
FailureMatch(s) == FailureMatchIn(s, FailureCands(s))

\* parse_line_error: a LineError, or None (matched is FALSE)
parse_line_error(line) == FailureMatch(line)

\* REPLACE_FILENAME_LINE_RE = ^\s+.*?\.go:\d+:
\* The candidates <<k, e>>: k leading whitespace characters taken by \s+,
\* ".go" starting at position e (.*? may be empty, and holds no newline).
ReplaceCands(s) ==
    LET n == RunLen(s, 1, WhiteSpace)
    IN  { c \in (1..n) \X (1..Len(s)) :
            /\ c[2] >= c[1] + 1
            /\ StartsWithAt(s, c[2], ".go")
            /\ NoNewline(s, c[1] + 1, c[2] - 1)
            /\ LineNoEnd(s, c[2] + 3) # 0 }

\* REPLACE_FILENAME_LINE_RE.sub("", s): the pattern is anchored at the start
\* of the string, so at most one match is removed.
ReplaceIn(s, cs) ==
    IF cs = {} THEN s ELSE From(s, LineNoEnd(s, FirstCand(cs)[2] + 3))

ReplaceFilenameLine(s) == ReplaceIn(s, ReplaceCands(s))

ReportWords == {"PASS", "FAIL", "SKIP", "BENCH"}
UpdateWords == {"RUN", "PAUSE", "CONT"}

\* TEST_REPORT_RE = ^[ ]{0,}--- (?:PASS|FAIL|SKIP|BENCH): .+
TEST_REPORT_RE(s) ==
    LET n == RunLen(s, 1, {" "})
    IN  \E k \in 0..n : \E w \in ReportWords :
            LET lit == "--- " \o w \o ": "
            IN  /\ StartsWithAt(s, k + 1, lit)
                /\ Ch(s, k + 1 + Len(lit)) \notin {"", NL}

\* TEST_UPDATE_RE = ^=== (?:RUN|PAUSE|CONT)\s+
TEST_UPDATE_RE(s) ==
    \E w \in UpdateWords :
        LET lit == "=== " \o w
        IN  /\ StartsWith(s, lit)
            /\ Ch(s, 1 + Len(lit)) \in WhiteSpace

(***************************************************************************)
(* Events (boot.py:81-181)                                                 *)
(***************************************************************************)

\* TestAction: the eight tags, and the terminal ones
TestAction ==
    {"run", "pause", "cont", "pass", "bench", "fail", "output", "skip"}

is_final(a) == a \in {"pass", "bench", "fail", "skip"}

\* A line of raw text is modelled by the JSON value it spells:
\*   kind "object"  - a JSON object; a missing key is None
\*   kind "scalar"  - valid JSON that is not an object (a number, a string)
\*   kind "invalid" - not JSON
\*   kind "blank"   - the empty line
Obj(a, p, t, o) ==
    [kind |-> "object", Action |-> a, Package |-> p, Test |-> t, Output |-> o]
Blank == [kind |-> "blank", Action |-> None, Package |-> None,
          Test |-> None, Output |-> None]
Invalid == [kind |-> "invalid", Action |-> None, Package |-> None,
            Test |-> None, Output |-> None]
Scalar == [kind |-> "scalar", Action |-> None, Package |-> None,
           Test |-> None, Output |-> None]

\* TestEvent (time and elapsed are carried but never read by the parser)
TestEvent(a, p, t, o) ==
    [action |-> a, package |-> p, test |-> t, output |-> o]

\* TestAction.from_string: raises unless s is one of the eight values
from_string_raises(s) == s \notin TestAction

\* TestEvent.from_json: json.loads with object_hook=_from_raw_json.
\* raised: a ValueError; isEvent: the value returned is a TestEvent.
from_json(line) ==
    CASE line.kind = "invalid" ->
            [raised |-> TRUE, isEvent |-> FALSE, ev |-> None]
      [] line.kind = "scalar" ->
            [raised |-> FALSE, isEvent |-> FALSE, ev |-> None]
      [] OTHER ->
            IF line.Action = None \/ from_string_raises(line.Action)
            THEN [raised |-> TRUE, isEvent |-> FALSE, ev |-> None]
            ELSE [raised |-> FALSE, isEvent |-> TRUE,
                  ev |-> TestEvent(line.Action, line.Package,
                                   line.Test, line.Output)]

get_output(e) == IF e.output = None THEN "" ELSE e.output
get_package(e) == IF e.package = None THEN "" ELSE e.package

(***************************************************************************)
(* parse_combined_output (boot.py:242-259)                                 *)
(***************************************************************************)

\* the prefix: the leading spaces of the first line plus four spaces, or ""
\* when the first line holds nothing but spaces
\* a prefix without the four further spaces
OutputPrefixNoExtra(first) ==
    SubSeq(first, 1, RunLen(first, 1, {" "}))

OutputPrefix(first) ==
    LET n == RunLen(first, 1, {" "})
    IN  IF n = Len(first) THEN "" ELSE SubSeq(first, 1, n) \o "    "

StripLine(s, prefix) ==
    RStripNL(IF StartsWith(s, prefix) THEN From(s, Len(prefix) + 1) ELSE s)

RECURSIVE Join(_)
Join(ss) ==
    IF Len(ss) = 0 THEN ""
    ELSE IF Len(ss) = 1 THEN ss[1]
    ELSE ss[1] \o NL \o Join(Tail(ss))

\* combined: the stripped lines; the first then loses its file:line:
ReplaceFirst(combined) ==
    [combined EXCEPT ![1] = ReplaceFilenameLine(@)]

StripAll(output, prefix) ==
    [i \in 1..Len(output) |-> StripLine(output[i], prefix)]

parse_combined_output(output) ==
    IF Len(output) = 0 THEN ""
    ELSE Join(ReplaceFirst(StripAll(output, OutputPrefix(output[1]))))

(***************************************************************************)
(* Test.from_events (boot.py:320-408)                                      *)
(***************************************************************************)

\* a _final_action that returns the action of the last terminal event
RECURSIVE final_action_last(_)
final_action_last(events) ==
    IF Len(events) = 0 THEN None
    ELSE IF is_final(events[Len(events)].action)
    THEN events[Len(events)].action
    ELSE final_action_last(SubSeq(events, 1, Len(events) - 1))

\* Test._final_action: the action of the first terminal event, or None
RECURSIVE final_action(_)
final_action(events) ==
    IF Len(events) = 0 THEN None
    ELSE IF is_final(events[1].action) THEN events[1].action
    ELSE final_action(Tail(events))

\* a scan of extra that breaks at failure-location lines only
IsBoundaryLocationOnly(o) ==
    o.action = "output" /\ FILENAME_LINE_FAILURE_RE(get_output(o))

\* lines 371-376: the output events at which the scan of extra breaks
IsBoundary(o) ==
    /\ o.action = "output"
    /\ \/ FILENAME_LINE_FAILURE_RE(get_output(o))
       \/ TEST_REPORT_RE(get_output(o))
       \/ TEST_UPDATE_RE(get_output(o))

\* the index at which the scan of `extra` breaks, 0 when it runs to the end
Boundary(extra) ==
    LET hits == {i \in 1..Len(extra) : IsBoundary(extra[i])}
    IN  IF hits = {} THEN 0 ELSE Min(hits)

\* the texts the scan appends to failure.output
RECURSIVE OutputsOf(_)
OutputsOf(evs) ==
    IF Len(evs) = 0 THEN <<>>
    ELSE IF evs[1].action = "output"
         THEN <<get_output(evs[1])>> \o OutputsOf(Tail(evs))
         ELSE OutputsOf(Tail(evs))

\* the Failure of line 362, once its output list is complete
Failure(le, output) ==
    [filename |-> le.filename, line |-> le.line, failure |-> le.message,
     output |-> output, combined_output |-> parse_combined_output(output)]

\* the Failure that event e opens: le its LineError, extra the events after
\* it, b the index at which the scan of extra breaks
MakeFailure(e, le, extra, b) ==
    Failure(le, <<get_output(e)>>
                \o OutputsOf(IF b = 0 THEN extra ELSE SubSeq(extra, 1, b - 1)))

\* The while loop. events: the local list; list: the list object the caller
\* passed (held by RawTestOutput.pkgs); aliased: events is still that object,
\* so events.pop(0) removes from it too. `events = events[i:]` rebinds the
\* local name to a copy.
RECURSIVE Walk(_, _, _, _)

\* an iteration that, on a break, lets the boundary event go with the span
WalkStepPastBoundary(e, rest, list, aliased, failures, le, b) ==
    IF e.action # "output" \/ get_output(e) = "" \/ ~le.matched
    THEN Walk(rest, list, aliased, failures)
    ELSE Walk(IF b = 0 THEN rest ELSE SubSeq(rest, b + 1, Len(rest)),
              list,
              aliased /\ b = 0,
              Append(failures, MakeFailure(e, le, rest, b)))

\* an iteration whose scan appends the text of the boundary event before it
\* breaks, and leaves the event to the next iteration
WalkStepWithBoundary(e, rest, list, aliased, failures, le, b) ==
    IF e.action # "output" \/ get_output(e) = "" \/ ~le.matched
    THEN Walk(rest, list, aliased, failures)
    ELSE Walk(IF b = 0 THEN rest ELSE SubSeq(rest, b, Len(rest)),
              list,
              aliased /\ b = 0,
              Append(failures,
                     MakeFailure(e, le, rest, IF b = 0 THEN 0 ELSE b + 1)))

\* one iteration: e popped, rest the events after it, le the LineError of
\* e's text, b the index at which the scan of rest breaks
WalkStep(e, rest, list, aliased, failures, le, b) ==
    IF e.action # "output" \/ get_output(e) = "" \/ ~le.matched
    THEN Walk(rest, list, aliased, failures)
    ELSE Walk(IF b = 0 THEN rest ELSE SubSeq(rest, b, Len(rest)),
              list,
              aliased /\ b = 0,
              Append(failures, MakeFailure(e, le, rest, b)))

Walk(events, list, aliased, failures) ==
    IF Len(events) = 0 THEN [failures |-> failures, list |-> list]
    ELSE WalkStep(Head(events), Tail(events),
                  IF aliased THEN Tail(events) ELSE list,
                  aliased, failures,
                  parse_line_error(get_output(Head(events))),
                  Boundary(Tail(events)))

NoTest == [name |-> "", package |-> "", status |-> None, failures |-> <<>>]

\* the Test of line 403 and the caller's list, after the loop w
FromEventsResult(first, final, w) ==
    [raised |-> FALSE,
     test |-> [name |-> IF first.test = None THEN "" ELSE first.test,
               package |-> get_package(first),
               status |-> final,
               failures |-> w.failures],
     list |-> w.list]

\* a from_events without the unconditional `del events[0]` of line 347
FromEventsBodyKeep(events, final, ev1) ==
    IF final = None
    THEN [raised |-> TRUE, test |-> NoTest, list |-> events]
    ELSE FromEventsResult(events[1], final, Walk(ev1, ev1, TRUE, <<>>))

\* lines 339-408: final is _final_action(events), ev1 the list after the
\* first event was removed if its text is an update
FromEventsBody(events, final, ev1) ==
    IF final = None
    THEN [raised |-> TRUE, test |-> NoTest, list |-> events]
    ELSE IF Len(ev1) = 0
    THEN \* del events[0] on the empty list: IndexError
         [raised |-> TRUE, test |-> NoTest, list |-> ev1]
    ELSE FromEventsResult(events[1], final,
                          Walk(Tail(ev1), Tail(ev1), TRUE, <<>>))

\* Test.from_events(events): raised, the Test returned, and `list`, the
\* caller's list object as the call leaves it.
from_events(events) ==
    IF Len(events) = 0
    THEN [raised |-> TRUE, test |-> NoTest, list |-> events]
    ELSE IF \E i \in 1..Len(events) : events[i].test # events[1].test
    THEN [raised |-> TRUE, test |-> NoTest, list |-> events]
    ELSE FromEventsBody(events, final_action(events),
                        IF TEST_UPDATE_RE(get_output(events[1]))
                        THEN Tail(events) ELSE events)

(***************************************************************************)
(* RawTestOutput (boot.py:434-482)                                         *)
(*                                                                         *)
(* pkgs is a dict of dicts, both in insertion order: a sequence of         *)
(* [name, tests], tests a sequence of [name, events].                      *)
(***************************************************************************)

PkgIndex(pk, name) ==
    LET hits == {i \in 1..Len(pk) : pk[i].name = name}
    IN  IF hits = {} THEN 0 ELSE Min(hits)

\* RawTestOutput.add_event
\* self.pkgs[ev.package][ev.test].append(ev), the keys present
AppendEvent(tests, ev) ==
    [tests EXCEPT ![PkgIndex(tests, ev.test)].events = Append(@, ev)]

\* lines 449-451 on the tests of one package
AddToTests(tests, ev) ==
    AppendEvent(IF PkgIndex(tests, ev.test) = 0
                THEN Append(tests, [name |-> ev.test, events |-> <<>>])
                ELSE tests, ev)

AddToPkg(pk, ev) ==
    [pk EXCEPT ![PkgIndex(pk, ev.package)].tests = AddToTests(@, ev)]

\* RawTestOutput.add_event
add_event(pk, ev) ==
    IF ev.package = None \/ ev.test = None THEN pk
    ELSE AddToPkg(IF PkgIndex(pk, ev.package) = 0
                  THEN Append(pk, [name |-> ev.package,
                                   tests |-> <<[name |-> ev.test,
                                                events |-> <<>>]>>])
                  ELSE pk, ev)

\* a decoding that leaves out the lines that fail to decode
RECURSIVE DecodeLinesSkip(_)
DecodeLinesSkip(text) ==
    IF Len(text) = 0 THEN <<>>
    ELSE IF text[1].kind = "blank" \/ from_json(text[1]).raised
    THEN DecodeLinesSkip(Tail(text))
    ELSE <<from_json(text[1])>> \o DecodeLinesSkip(Tail(text))

\* the decoding of the non-empty lines of a text, in order:
\* [TestEvent.from_json(line) for line in output.split("\n") if line]
RECURSIVE DecodeLines(_)
DecodeLines(text) ==
    IF Len(text) = 0 THEN <<>>
    ELSE IF text[1].kind = "blank" THEN DecodeLines(Tail(text))
    ELSE <<from_json(text[1])>> \o DecodeLines(Tail(text))

\* for e in events: o.add_event(e), on the mapping pk. add_event raises
\* (AttributeError) on a value that is not a TestEvent, and the events
\* before it have been added.
RECURSIVE AddAll(_, _)
AddAll(pk, decoded) ==
    IF Len(decoded) = 0 THEN [raised |-> FALSE, pkgs |-> pk]
    ELSE IF ~decoded[1].isEvent THEN [raised |-> TRUE, pkgs |-> pk]
    ELSE AddAll(add_event(pk, decoded[1].ev), Tail(decoded))

\* parse_events: decode and add line by line, so the events of the lines
\* before a line that fails have been added.
RECURSIVE AddLines(_, _)
AddLines(pk, text) ==
    IF Len(text) = 0 THEN [raised |-> FALSE, pkgs |-> pk]
    ELSE IF text[1].kind = "blank" THEN AddLines(pk, Tail(text))
    ELSE IF from_json(text[1]).raised \/ ~from_json(text[1]).isEvent
    THEN [raised |-> TRUE, pkgs |-> pk]
    ELSE AddLines(add_event(pk, from_json(text[1]).ev), Tail(text))

\* what parse_events returns: out.pkgs (groups), and no Test
ParseResult(a) ==
    [raised |-> a.raised, pkgs |-> a.pkgs, tests |-> <<>>,
     groups |-> a.pkgs, made |-> <<>>]

\* parse_events(test_output) on the mapping pk that RawTestOutput() holds
parse_events(pk, text) == ParseResult(AddLines(pk, text))

\* the (package index, test index) pairs of pk in iteration order
GroupKeys(pk) ==
    LET RECURSIVE Keys(_)
        Keys(p) ==
            IF p > Len(pk) THEN <<>>
            ELSE [t \in 1..Len(pk[p].tests) |-> <<p, t>>] \o Keys(p + 1)
    IN  Keys(1)

\* the events of every group of pk, in iteration order
Groups(pk) ==
    LET ks == GroupKeys(pk)
    IN  [i \in 1..Len(ks) |-> pk[ks[i][1]].tests[ks[i][2]].events]

(***************************************************************************)
(* Test.from_test_output (boot.py:410-431)                                 *)
(***************************************************************************)

\* a filter that forgets `and tt.failures`
KeepAnyFail(tt, all_tests) == all_tests \/ tt.status = "fail"

\* the filter of line 429
Keep(tt, all_tests) ==
    all_tests \/ (tt.status = "fail" /\ Len(tt.failures) > 0)

\* The two for loops over o.pkgs: keys, the groups still to visit; tests, the
\* list built so far; made, every Test that from_events returned.
RECURSIVE RunGroups(_, _, _, _, _)

\* an iteration that catches the error of from_events and goes on
RunGroupSkip(pk, keys, tests, made, all_tests, r) ==
    RunGroups([pk EXCEPT ![keys[1][1]].tests[keys[1][2]].events = r.list],
              Tail(keys),
              IF ~r.raised /\ Keep(r.test, all_tests)
              THEN Append(tests, r.test) ELSE tests,
              IF r.raised THEN made ELSE Append(made, r.test), all_tests)

\* one iteration: r is what from_events returned for the group at key
RunGroup(pk, keys, tests, made, all_tests, r) ==
    IF r.raised
    THEN [raised |-> TRUE,
          pkgs |-> [pk EXCEPT ![keys[1][1]].tests[keys[1][2]].events = r.list],
          tests |-> <<>>, made |-> made]
    ELSE RunGroups([pk EXCEPT ![keys[1][1]].tests[keys[1][2]].events = r.list],
                   Tail(keys),
                   IF Keep(r.test, all_tests)
                   THEN Append(tests, r.test) ELSE tests,
                   Append(made, r.test), all_tests)

RunGroups(pk, keys, tests, made, all_tests) ==
    IF Len(keys) = 0
    THEN [raised |-> FALSE, pkgs |-> pk, tests |-> tests, made |-> made]
    ELSE RunGroup(pk, keys, tests, made, all_tests,
                  from_events(pk[keys[1][1]].tests[keys[1][2]].events))

\* Test.from_test_output(output, all_tests) on the mapping pk that
\* RawTestOutput() holds: raised, the list returned, the mapping as the call
\* leaves it, the mapping as from_events found it (groups) and every Test
\* made.
\* what the call returns once the loops r have run on the mapping `groups`
Returned(groups, r) ==
    [raised |-> r.raised, pkgs |-> r.pkgs, tests |-> r.tests,
     groups |-> groups, made |-> r.made]

\* lines 425-431, a being what RawTestOutput.from_events made of the events
AfterGrouping(a, all_tests) ==
    IF a.raised
    THEN [raised |-> TRUE, pkgs |-> a.pkgs, tests |-> <<>>,
          groups |-> a.pkgs, made |-> <<>>]
    ELSE Returned(a.pkgs,
                  RunGroups(a.pkgs, GroupKeys(a.pkgs), <<>>, <<>>, all_tests))

AfterDecoding(pk, decoded, all_tests) ==
    IF \E i \in 1..Len(decoded) : decoded[i].raised
    THEN [raised |-> TRUE, pkgs |-> pk, tests |-> <<>>, groups |-> pk,
          made |-> <<>>]
    ELSE AfterGrouping(AddAll(pk, decoded), all_tests)

from_test_output(pk, text, all_tests) ==
    AfterDecoding(pk, DecodeLines(text), all_tests)

(***************************************************************************)
(* The raw texts the calls draw from                                       *)
(***************************************************************************)

TextScenario ==
    << Obj("run", "demo", "TestFoo", None),
       Obj("output", "demo", "TestFoo", "=== RUN   TestFoo\n"),
       Obj("output", "demo", "TestFoo", "    demo_test.go:10: expected 1, got 2\n"),
       Obj("output", "demo", "TestFoo", "        extra detail line\n"),
       Obj("output", "demo", "TestFoo", "--- FAIL: TestFoo (0.00s)\n"),
       Obj("fail", "demo", "TestFoo", None) >>

TextThree ==
    << Obj("run", "demo", "TestFoo", None),
       Obj("output", "demo", "TestFoo", "=== RUN   TestFoo\n"),
       Obj("output", "demo", "TestFoo", "    a.go:1: m1\n"),
       Obj("output", "demo", "TestFoo", "    a.go:2: m2\n"),
       Obj("output", "demo", "TestFoo", "    a.go:3: m3\n"),
       Obj("output", "demo", "TestFoo", "--- FAIL: TestFoo (0.00s)\n"),
       Obj("fail", "demo", "TestFoo", None) >>

TextSkip ==
    << Obj("run", "demo", "TestFoo", None),
       Obj("output", "demo", "TestFoo", "=== RUN   TestFoo\n"),
       Obj("output", "demo", "TestFoo", "    a.go:5: skipping\n"),
       Obj("output", "demo", "TestFoo", "--- SKIP: TestFoo (0.00s)\n"),
       Obj("skip", "demo", "TestFoo", None) >>

TextPass ==
    << Obj("run", "demo", "TestBar", None),
       Obj("output", "demo", "TestBar", "=== RUN   TestBar\n"),
       Obj("output", "demo", "TestBar", "--- PASS: TestBar (0.00s)\n"),
       Obj("pass", "demo", "TestBar", None),
       Blank,
       Obj("output", "demo", None, "PASS\n"),
       Obj("pass", "demo", None, None) >>

TextNoLocation ==
    << Obj("run", "demo", "TestPanic", None),
       Obj("output", "demo", "TestPanic", "panic: boom\n"),
       Obj("fail", "demo", "TestPanic", None) >>

TextCut ==
    << Obj("run", "demo", "TestOk", None),
       Obj("output", "demo", "TestOk", "    a.go:9: bad\n"),
       Obj("fail", "demo", "TestOk", None),
       Obj("run", "demo", "TestCut", None),
       Obj("output", "demo", "TestCut", "=== RUN   TestCut\n"),
       Obj("output", "demo", "TestCut", "    a.go:4: cut\n") >>

TextTwoPkgs ==
    << Obj("run", "p1", "TestA", None),
       Obj("run", "p2", "TestB", None),
       Obj("output", "p1", "TestA", "    a.go:1: m\n"),
       Obj("pass", "p2", "TestB", None),
       Obj("run", "p1", "TestC", None),
       Obj("fail", "p1", "TestA", None),
       Obj("output", "p1", "TestC", "    c.go:3: why\n"),
       Obj("skip", "p1", "TestC", None),
       Obj("run", "p2", "TestD", None),
       Obj("output", "p2", "TestD", "exit status 2\n"),
       Obj("fail", "p2", "TestD", None) >>

TextTerminalFirst ==
    << Obj("bench", "demo", "TestEarly", None),
       Obj("output", "demo", "TestEarly", "=== RUN   TestEarly\n"),
       Obj("output", "demo", "TestEarly", "    e.go:2: late\n"),
       Obj("run", "demo", "TestMid", None),
       Obj("fail", "demo", "TestMid", None),
       Obj("output", "demo", "TestMid", "    e.go:8: after\n") >>

TextDup ==
    << Obj("run", "demo", "TestDup", None),
       Obj("output", "demo", "TestDup", "    a.go:1: a.go:1: msg\n"),
       Obj("fail", "demo", "TestDup", None) >>

TextNested ==
    << Obj("output", "demo", "TestSub/x", "=== RUN   TestSub/x\n"),
       Obj("run", "demo", "TestSub/x", None),
       Obj("output", "demo", "TestSub/x", "        sub_test.go:07: deep\n"),
       Obj("output", "demo", "TestSub/x", "            more\n\n"),
       Obj("output", "demo", "TestSub/x", "    shallow\n"),
       Obj("output", "demo", "TestSub/x", "=== CONT  TestSub/x\n"),
       Obj("output", "demo", "TestSub/x", "    b.go:2: second\n"),
       Obj("fail", "demo", "TestSub/x", None) >>

TextInvalid ==
    << Obj("run", "demo", "TestBad", None),
       Obj("fail", "demo", "TestBad", None),
       Invalid >>

TextScalar ==
    << Obj("run", "demo", "TestNum", None),
       Scalar,
       Obj("fail", "demo", "TestNum", None) >>

TextUnknownAction ==
    << Obj("start", "demo", "TestX", None) >>

TextEmpty ==
    << Blank >>

TextLeading ==
    << Obj("output", "demo", "TestMid", "    e.go:8: after\n"),
       Obj("output", None, "TestMid", "orphan\n"),
       Obj("fail", "demo", "TestMid", None),
       Obj("output", "demo", "TestEarly", "=== RUN   TestEarly\n"),
       Obj("output", "demo", "TestEarly", "    e.go:2: late\n"),
       Obj("output", "demo", "TestEarly", "    e.go:3: kept\n"),
       Obj("fail", "demo", "TestEarly", None) >>

TextNoAction ==
    << Obj("run", "demo", "TestX", None),
       Obj(None, "demo", "TestX", None) >>

\* a line in which ".go:1: " follows the indentation at once
TextTwoLocations ==
    << Obj("run", "demo", "TestTwo", None),
       Obj("output", "demo", "TestTwo", "    .go:1: x.go:2: msg\n"),
       Obj("output", "demo", "TestTwo", "        detail\n"),
       Obj("fail", "demo", "TestTwo", None) >>

Texts ==
    { TextScenario,
      TextThree,
      TextSkip,
      TextPass,
      TextNoLocation,
      TextCut,
      TextTwoPkgs,
      TextTerminalFirst,
      TextDup,
      TextNested,
      TextInvalid,
      TextScalar,
      TextUnknownAction,
      TextEmpty,
      TextLeading,
      TextNoAction,
      TextTwoLocations }

\* the texts the calls of parse_events draw from
ParseTexts == {TextScenario, TextThree, TextPass, TextScalar}

\* the number of parser calls made in one behaviour
MaxCalls == 2

(***************************************************************************)
(* State                                                                   *)
(***************************************************************************)

VARIABLES
    pkgs,   \* the dict that is the default of RawTestOutput.__init__'s pkgs
            \* parameter (boot.py:439): one object, made when the function
            \* is defined, and held by every RawTestOutput() built without
            \* an argument
    calls,  \* the number of parser calls made
    last,   \* the last parser call: its arguments and what it returned
    prev    \* the parser call before it

\* One AsyncProcess (plugin/exec.py), its child and its threads
VARIABLES
    obj,      \* "none", "ok" (constructed) or "raised" (__init__ raised)
    conf,     \* the arguments and the environment of the run
    killed,   \* self.killed
    child,    \* "none", "running" or "exited"
    rc,       \* the child's return code
    pending,  \* the signals sent to the child and not yet delivered
    sigs,     \* every signal sent: [sig, by, late, to]
    written,  \* the chunks of output the child has written
    worker,   \* where the worker thread (proc_thread) stands
    outcome,  \* what the worker is about to give, or gave, to the callback
    cbLog,    \* every invocation of the callback, in order
    kpc,      \* where each thread that calls kill() stands
    klate,    \* whether the thread's kill() began after a kill() returned
    kerr,     \* the kill() calls that raised: [by, late]
    returned, \* the number of kill() calls that have returned or raised
    joined,   \* "returned" once a join() has returned, "no" before
    pipes,    \* the pipes of self.proc: "none", "open" or "closed"
    environ,  \* os.environ of the process that builds the AsyncProcess
    overrides, \* the env argument: [given, vars]
    proc_env  \* the environment the child is started with

\* check_gotest_util (plugin/testutil.py) and the threads that call it
VARIABLES
    gotest_util_checked,    \* _gotest_util_checked
    gotest_util_installed,  \* _gotest_util_installed
    gotest_check_lock,      \* the thread that holds _gotest_check_lock, or "free"
    upc,      \* where each thread that calls check_gotest_util() stands
    uout,     \* how the thread's last call ended: "none", "returned", "raised"
    checks,   \* the number of freshness checks begun
    ucalls    \* the number of calls of check_gotest_util() begun

parserVars == <<pkgs, calls, last, prev>>

utilVars == <<gotest_util_checked, gotest_util_installed, gotest_check_lock,
              upc, uout, checks, ucalls>>

envVars == <<environ, overrides, proc_env>>

runnerVars == <<obj, conf, killed, child, rc, pending, sigs, written, worker,
                outcome, cbLog, kpc, klate, kerr, returned, joined, pipes,
                envVars>>

vars == <<parserVars, runnerVars, utilVars>>

\* the threads that call check_gotest_util()
Callers == {"t1", "t2"}

\* the calls of check_gotest_util() that are followed
MaxUtilCalls == 3

NoCall ==
    [op |-> "none", text |-> <<>>, all_tests |-> FALSE, raised |-> FALSE,
     tests |-> <<>>, groups |-> <<>>, made |-> <<>>, before |-> <<>>,
     after |-> <<>>]

\* the threads that call kill()
Killers == {"k1", "k2"}

\* the chunks of output a child writes at most
MaxWrites == 1

\* the kill() calls made on one AsyncProcess at most
MaxKillCalls == 2

NoConf == [mswindows |-> FALSE, launch |-> "ok", timeout |-> FALSE]

\* the runs: the platform, whether Popen can launch the command, whether a
\* timeout is given. What the child does (write, exit, ignore SIGTERM) and
\* whether the callback raises are choices of the steps below.
Confs == [mswindows : BOOLEAN, launch : {"ok", "fails"}, timeout : BOOLEAN]

NoOutcome == [proc |-> FALSE, exc |-> "none", rc |-> 0, out |-> 0]

\* ---- the environment (exec.py:42-45) ----

\* the home directory of the user, the value of HOME
Home == "/home/u"

\* the values of the variables: a plain path, and two that begin with the
\* user-home shorthand
EnvValues == {"/opt/go", "~/go", "~"}

\* os.environ: HOME and two variables
Environs ==
    {[HOME |-> Home, GOPATH |-> g, GOCACHE |-> c] : g, c \in EnvValues}

NoVars == [k \in {} |-> ""]

\* the env argument: None (given FALSE), or a dict that sets some of GOPATH
\* (inherited too) and GOFLAGS (not inherited)
EnvArgs ==
    {[given |-> FALSE, vars |-> NoVars]}
    \cup {[given |-> TRUE, vars |-> f] :
             f \in UNION {[D -> EnvValues] : D \in SUBSET {"GOPATH", "GOFLAGS"}}}

\* userhome.rstrip("/")
RECURSIVE RStripSlash(_)
RStripSlash(s) ==
    IF Len(s) > 0 /\ Ch(s, Len(s)) = "/"
    THEN RStripSlash(SubSeq(s, 1, Len(s) - 1)) ELSE s

\* path.find("/", 1), as a 1-based position; Len(path) + 1 when there is none
FirstSlash(path) ==
    LET hits == {i \in 2..Len(path) : Ch(path, i) = "/"}
    IN  IF hits = {} THEN Len(path) + 1 ELSE Min(hits)

\* (userhome + path[i:]) or "/"
OrRoot(s) == IF s = "" THEN "/" ELSE s

\* os.path.expanduser(path), home the HOME of os.environ: "~" and "~/..."
\* get the home directory; "~name..." is left as it is when pwd knows no
\* user of that name
expanduser(path, home) ==
    IF ~StartsWith(path, "~") THEN path
    ELSE IF FirstSlash(path) = 2
    THEN OrRoot(RStripSlash(home) \o From(path, 2))
    ELSE path

\* lines 42-44: os.environ.copy(), then update(env) unless env is None
Merged(e, o) ==
    [k \in DOMAIN e \cup (IF o.given THEN DOMAIN o.vars ELSE {}) |->
        IF o.given /\ k \in DOMAIN o.vars THEN o.vars[k] ELSE e[k]]

\* line 45: {k: os.path.expanduser(v) for k, v in proc_env.items()}
Expanded(m, home) == [k \in DOMAIN m |-> expanduser(m[k], home)]

\* the proc_env given to Popen
ProcEnv(e, o) == Expanded(Merged(e, o), e["HOME"])

\* everything but os.environ and the env argument
InitState ==
    /\ pkgs = <<>>
    /\ calls = 0
    /\ last = NoCall
    /\ prev = NoCall
    /\ obj = "none"
    /\ conf = NoConf
    /\ killed = FALSE
    /\ child = "none"
    /\ rc = 0
    /\ pending = {}
    /\ sigs = <<>>
    /\ written = 0
    /\ worker = "new"
    /\ outcome = NoOutcome
    /\ cbLog = <<>>
    /\ kpc = [k \in Killers |-> "idle"]
    /\ klate = [k \in Killers |-> FALSE]
    /\ kerr = <<>>
    /\ returned = 0
    /\ joined = "no"
    /\ pipes = "none"
    /\ proc_env = NoVars
    /\ gotest_util_checked = FALSE
    /\ gotest_util_installed = FALSE
    /\ gotest_check_lock = "free"
    /\ upc = [t \in Callers |-> "idle"]
    /\ uout = [t \in Callers |-> "none"]
    /\ checks = 0
    /\ ucalls = 0

\* the environment of the runs whose environment is not looked at
Init ==
    /\ InitState
    /\ environ = [HOME |-> Home, GOPATH |-> "/opt/go", GOCACHE |-> "/opt/go"]
    /\ overrides = [given |-> FALSE, vars |-> NoVars]

\* any environment and any env argument
EnvInit ==
    /\ InitState
    /\ environ \in Environs
    /\ overrides \in EnvArgs

\* A call of Test.from_test_output(output, all_tests)
CallRecord(op, text, all_tests, r, before) ==
    [op |-> op, text |-> text, all_tests |-> all_tests, raised |-> r.raised,
     tests |-> r.tests, groups |-> r.groups, made |-> r.made,
     before |-> before, after |-> r.pkgs]

FromTestOutput(text, all_tests) ==
    /\ calls < MaxCalls
    /\ last' = CallRecord("from_test_output", text, all_tests,
                          from_test_output(pkgs, text, all_tests), pkgs)
    /\ pkgs' = last'.after
    /\ prev' = last
    /\ calls' = calls + 1
    /\ UNCHANGED <<runnerVars, utilVars>>

\* A call of parse_events(test_output)
ParseEvents(text) ==
    /\ calls < MaxCalls
    /\ last' = CallRecord("parse_events", text, FALSE,
                          parse_events(pkgs, text), pkgs)
    /\ pkgs' = last'.after
    /\ prev' = last
    /\ calls' = calls + 1
    /\ UNCHANGED <<runnerVars, utilVars>>

Next ==
    \/ \E text \in Texts, all_tests \in BOOLEAN : FromTestOutput(text, all_tests)
    \/ \E text \in ParseTexts : ParseEvents(text)

Spec == Init /\ [][Next]_vars

(***************************************************************************)
(* AsyncProcess (plugin/exec.py)                                           *)
(***************************************************************************)

\* __init__ raises: on Windows line 56 reads os.setsid, which the os module
\* of that platform does not have (AttributeError); elsewhere Popen raises
\* when it cannot launch the command.
InitRaises(c) == c.mswindows \/ c.launch = "fails"

\* AsyncProcess(cmd, callback, timeout=...)
Construct(c) ==
    /\ obj = "none"
    /\ conf' = c
    /\ IF InitRaises(c)
       THEN obj' = "raised" /\ UNCHANGED <<child, pipes, proc_env>>
       ELSE /\ obj' = "ok" /\ child' = "running" /\ pipes' = "open"
            /\ proc_env' = ProcEnv(environ, overrides)
    /\ UNCHANGED <<killed, rc, pending, sigs, written, worker, outcome,
                   cbLog, kpc, klate, kerr, returned>>
    /\ UNCHANGED <<parserVars, utilVars, joined, environ, overrides>>

\* run(): proc_thread.start(); the worker enters proc.communicate(timeout)
Run ==
    /\ obj = "ok"
    /\ worker = "new"
    /\ worker' = "communicate"
    /\ UNCHANGED <<obj, conf, killed, child, rc, pending, sigs, written,
                   outcome, cbLog, kpc, klate, kerr, returned>>
    /\ UNCHANGED <<parserVars, utilVars, joined, pipes, envVars>>

\* ---- the child ----

ChildWrites ==
    /\ child = "running"
    /\ written < MaxWrites
    /\ written' = written + 1
    /\ UNCHANGED <<obj, conf, killed, child, rc, pending, sigs, worker,
                   outcome, cbLog, kpc, klate, kerr, returned>>
    /\ UNCHANGED <<parserVars, utilVars, joined, pipes, envVars>>

\* the child exits by itself, with exit code c (a child that hangs never
\* takes this step)
ChildExits(c) ==
    /\ child = "running"
    /\ child' = "exited"
    /\ rc' = c
    /\ UNCHANGED <<obj, conf, killed, pending, sigs, written, worker,
                   outcome, cbLog, kpc, klate, kerr, returned>>
    /\ UNCHANGED <<parserVars, utilVars, joined, pipes, envVars>>

\* a pending signal reaches the child: SIGKILL ends it, SIGTERM ends it
\* unless the child handles or ignores SIGTERM (ignored)
Deliver(sig, ignored) ==
    /\ sig \in pending
    /\ sig = "SIGKILL" => ~ignored
    /\ pending' = pending \ {sig}
    /\ IF child = "running" /\ ~ignored
       THEN child' = "exited" /\ rc' = (IF sig = "SIGKILL" THEN -9 ELSE -15)
       ELSE UNCHANGED <<child, rc>>
    /\ UNCHANGED <<obj, conf, killed, sigs, written, worker, outcome, cbLog,
                   kpc, klate, kerr, returned>>
    /\ UNCHANGED <<parserVars, utilVars, joined, pipes, envVars>>

\* Popen.send_signal: polls first, and signals only a child that has not
\* exited; os.killpg of a group that exists signals it. by: the thread;
\* late: see klate; to: "group" (os.killpg) or "child" (Popen.terminate or
\* Popen.kill).
Send(sig, by, late, to) ==
    IF child = "running"
    THEN /\ pending' = pending \cup {sig}
         /\ sigs' = Append(sigs, [sig |-> sig, by |-> by, late |-> late,
                                  to |-> to])
    ELSE UNCHANGED <<pending, sigs>>

\* ---- kill() (lines 77-90), called by thread k ----

\* a kill() without the check of line 78
KillGuardAlways == TRUE

\* line 78: if not self.killed
KillGuard == ~killed

KillCheck(k) ==
    /\ obj = "ok"
    /\ kpc[k] = "idle"
    /\ returned < MaxKillCalls
    /\ klate' = [klate EXCEPT ![k] = returned > 0]
    /\ IF KillGuard
       THEN kpc' = [kpc EXCEPT ![k] = "set"] /\ returned' = returned
       ELSE kpc' = kpc /\ returned' = returned + 1
    /\ UNCHANGED <<obj, conf, killed, child, rc, pending, sigs, written,
                   worker, outcome, cbLog, kerr>>
    /\ UNCHANGED <<parserVars, utilVars, joined, pipes, envVars>>

\* line 79: self.killed = True
KillSet(k) ==
    /\ kpc[k] = "set"
    /\ killed' = TRUE
    /\ kpc' = [kpc EXCEPT ![k] = IF conf.mswindows THEN "kill" ELSE "killpg"]
    /\ UNCHANGED <<obj, conf, child, rc, pending, sigs, written, worker,
                   outcome, cbLog, klate, kerr, returned>>
    /\ UNCHANGED <<parserVars, utilVars, joined, pipes, envVars>>

\* line 86: os.killpg(self.proc.pid, SIGTERM). The child is started without
\* setsid (line 54), so its pid names a process group only if the child
\* made itself a group leader: "sent". Otherwise ProcessLookupError, which
\* line 87 catches, or another OSError, which is raised after the finally.
KillPg(k, result) ==
    /\ kpc[k] = "killpg"
    /\ IF result = "sent"
       THEN Send("SIGTERM", k, klate[k], "group")
       ELSE UNCHANGED <<pending, sigs>>
    /\ kpc' = [kpc EXCEPT ![k] = IF result = "OSError"
                                 THEN "terminate_raise" ELSE "terminate"]
    /\ UNCHANGED <<obj, conf, killed, child, rc, written, worker, outcome,
                   cbLog, klate, kerr, returned>>
    /\ UNCHANGED <<parserVars, utilVars, joined, pipes, envVars>>

\* line 90 (finally): self.proc.terminate(); then kill() returns, or raises
\* what killpg raised. Line 82, on Windows: self.proc.kill().
KillTerminate(k) ==
    /\ kpc[k] \in {"terminate", "terminate_raise", "kill"}
    /\ Send(IF kpc[k] = "kill" THEN "SIGKILL" ELSE "SIGTERM", k, klate[k],
            "child")
    /\ kerr' = IF kpc[k] = "terminate_raise"
               THEN Append(kerr, [by |-> k, late |-> klate[k]])
               ELSE kerr
    /\ kpc' = [kpc EXCEPT ![k] = "idle"]
    /\ returned' = returned + 1
    /\ UNCHANGED <<obj, conf, killed, child, rc, written, worker, outcome,
                   cbLog, klate>>
    /\ UNCHANGED <<parserVars, utilVars, joined, pipes, envVars>>

\* ---- the worker: _communicate and _run (lines 93-133) ----

\* a worker that raises for a non-zero exit code, as subprocess.run(check=True)
CommunicateReturnsChecked ==
    /\ worker = "communicate"
    /\ child = "exited"
    /\ worker' = "callback"
    /\ outcome' = IF rc = 0
                  THEN [proc |-> TRUE, exc |-> "none", rc |-> rc, out |-> written]
                  ELSE [proc |-> FALSE, exc |-> "exit", rc |-> rc, out |-> written]
    /\ UNCHANGED <<obj, conf, killed, child, rc, pending, sigs, written,
                   cbLog, kpc, klate, kerr, returned>>
    /\ pipes' = "closed"
    /\ UNCHANGED <<parserVars, utilVars, joined, envVars>>

\* line 101 returns: the child has exited and its output is read to the
\* end; lines 120-126 build the CompletedProcess
CommunicateReturns ==
    /\ worker = "communicate"
    /\ child = "exited"
    /\ worker' = "callback"
    /\ outcome' = [proc |-> TRUE, exc |-> "none", rc |-> rc, out |-> written]
    /\ UNCHANGED <<obj, conf, killed, child, rc, pending, sigs, written,
                   cbLog, kpc, klate, kerr, returned>>
    /\ pipes' = "closed"
    /\ UNCHANGED <<parserVars, utilVars, joined, envVars>>

\* line 102: TimeoutExpired, the child still running; the exception holds
\* the output read so far
CommunicateTimesOut ==
    /\ worker = "communicate"
    /\ conf.timeout
    /\ child = "running"
    /\ worker' = "kill_check"
    /\ outcome' = [proc |-> FALSE, exc |-> "timeout", rc |-> 0, out |-> written]
    /\ UNCHANGED <<obj, conf, killed, child, rc, pending, sigs, written,
                   cbLog, kpc, klate, kerr, returned>>
    /\ UNCHANGED <<parserVars, utilVars, joined, pipes, envVars>>

\* line 116: any other exception of communicate (an OSError, output that
\* does not decode)
CommunicateRaises ==
    /\ worker = "communicate"
    /\ worker' = "kill_check"
    /\ outcome' = [proc |-> FALSE, exc |-> "other", rc |-> 0, out |-> 0]
    /\ UNCHANGED <<obj, conf, killed, child, rc, pending, sigs, written,
                   cbLog, kpc, klate, kerr, returned>>
    /\ UNCHANGED <<parserVars, utilVars, joined, pipes, envVars>>

\* _kill, line 95: if not self.killed
WorkerKillCheck ==
    /\ worker = "kill_check"
    /\ worker' = IF ~killed THEN "kill_set" ELSE "wait"
    /\ UNCHANGED <<obj, conf, killed, child, rc, pending, sigs, written,
                   outcome, cbLog, kpc, klate, kerr, returned>>
    /\ UNCHANGED <<parserVars, utilVars, joined, pipes, envVars>>

\* _kill, line 96: self.killed = True
WorkerKillSet ==
    /\ worker = "kill_set"
    /\ killed' = TRUE
    /\ worker' = "kill_send"
    /\ UNCHANGED <<obj, conf, child, rc, pending, sigs, written, outcome,
                   cbLog, kpc, klate, kerr, returned>>
    /\ UNCHANGED <<parserVars, utilVars, joined, pipes, envVars>>

\* _kill, line 97: self.proc.kill()
WorkerKillSend ==
    /\ worker = "kill_send"
    /\ Send("SIGKILL", "worker", FALSE, "child")
    /\ worker' = "wait"
    /\ UNCHANGED <<obj, conf, killed, child, rc, written, outcome, cbLog,
                   kpc, klate, kerr, returned>>
    /\ UNCHANGED <<parserVars, utilVars, joined, pipes, envVars>>

\* a worker that leaves the with block without waiting for the child
WorkerLeaves ==
    /\ worker = "wait"
    /\ worker' = "callback"
    /\ outcome' = outcome
    /\ pipes' = "closed"
    /\ UNCHANGED <<obj, conf, killed, child, rc, pending, sigs, written,
                   cbLog, kpc, klate, kerr, returned>>
    /\ UNCHANGED <<parserVars, utilVars, joined, envVars>>

\* line 114, self.proc.wait(), and the wait of Popen.__exit__ as the with
\* block is left: they return once the child has exited; the exception then
\* reaches _communicate. On Windows line 110 reads what the child wrote.
WorkerWaits ==
    /\ worker = "wait"
    /\ child = "exited"
    /\ worker' = "callback"
    /\ outcome' = IF conf.mswindows /\ outcome.exc = "timeout"
                  THEN [outcome EXCEPT !.out = written]
                  ELSE outcome
    /\ UNCHANGED <<obj, conf, killed, child, rc, pending, sigs, written,
                   cbLog, kpc, klate, kerr, returned>>
    /\ pipes' = "closed"
    /\ UNCHANGED <<parserVars, utilVars, joined, envVars>>

\* lines 130-133: whether `except Exception` catches what the callback
\* raised and calls it again: the call of line 131 is inside the try
CallsAgain(o, raises) == o.proc /\ raises

\* an invocation of the callback with outcome o, made on `thread`
Delivered(o, thread) ==
    [proc |-> o.proc, exc |-> o.exc, rc |-> o.rc, out |-> o.out,
     thread |-> thread]

\* line 131, self.callback(proc, None), or line 133, self.callback(None,
\* exc); raises: the callback raises an Exception. One raised at line 131
\* is caught by line 132 and given to the callback at line 133.
Callback(raises) ==
    /\ worker = "callback"
    /\ cbLog' = Append(cbLog, Delivered(outcome, "worker"))
    /\ IF CallsAgain(outcome, raises)
       THEN /\ outcome' = [proc |-> FALSE, exc |-> "callback", rc |-> 0,
                           out |-> 0]
            /\ worker' = "callback"
       ELSE /\ outcome' = outcome
            /\ worker' = "done"
    /\ UNCHANGED <<obj, conf, killed, child, rc, pending, sigs, written,
                   kpc, klate, kerr, returned>>
    /\ UNCHANGED <<parserVars, utilVars, joined, pipes, envVars>>

\* ---- join() (lines 138-139), called by the thread that called run() ----

\* a join that returns as soon as the worker thread has been started
ThreadStarted == worker # "new"

\* Thread.join returns once the thread has ended: _communicate has returned,
\* or raised what the callback of line 133 raised
ThreadEnded == worker = "done"

\* join(): proc_thread.join() raises RuntimeError for a thread that was not
\* started (the call leaves nothing behind), and otherwise blocks until the
\* thread has ended
join ==
    /\ obj = "ok"
    /\ joined # "returned"
    /\ IF worker = "new"
       THEN joined' = joined
       ELSE ThreadEnded /\ joined' = "returned"
    /\ UNCHANGED <<obj, conf, killed, child, rc, pending, sigs, written,
                   worker, outcome, cbLog, kpc, klate, kerr, returned>>
    /\ UNCHANGED <<parserVars, utilVars, pipes, envVars>>

RunnerNext ==
    \/ \E c \in Confs : Construct(c)
    \/ Run
    \/ join
    \/ ChildWrites
    \/ \E c \in {0, 1} : ChildExits(c)
    \/ \E sig \in {"SIGTERM", "SIGKILL"}, ignored \in BOOLEAN :
           Deliver(sig, ignored)
    \/ \E k \in Killers : KillCheck(k)
    \/ \E k \in Killers : KillSet(k)
    \/ \E k \in Killers :
           \E result \in {"sent", "ProcessLookupError", "OSError"} :
               KillPg(k, result)
    \/ \E k \in Killers : KillTerminate(k)
    \/ CommunicateReturns
    \/ CommunicateTimesOut
    \/ CommunicateRaises
    \/ WorkerKillCheck
    \/ WorkerKillSet
    \/ WorkerKillSend
    \/ WorkerWaits
    \/ \E raises \in BOOLEAN : Callback(raises)

RunnerSpec == Init /\ [][RunnerNext]_vars

\* the steps of the worker thread once communicate() is over or has timed
\* out: a started thread goes on running
WorkerStep ==
    \/ CommunicateReturns
    \/ WorkerKillCheck
    \/ WorkerKillSet
    \/ WorkerKillSend
    \/ WorkerWaits
    \/ \E raises \in BOOLEAN : Callback(raises)

\* the kernel delivers a signal that was sent
SignalStep ==
    \E sig \in {"SIGTERM", "SIGKILL"}, ignored \in BOOLEAN : Deliver(sig, ignored)

\* a kill() that has begun goes on to its end
KillStep ==
    \E k \in Killers :
        \/ KillSet(k)
        \/ \E result \in {"sent", "ProcessLookupError", "OSError"} :
               KillPg(k, result)
        \/ KillTerminate(k)

\* The runs in which threads that can run do run and signals arrive. The
\* child is free to go on for ever: nothing makes it exit or write.
FairRunnerSpec ==
    /\ RunnerSpec
    /\ WF_vars(WorkerStep)
    /\ WF_vars(SignalStep)
    /\ WF_vars(KillStep)

\* The construction of an AsyncProcess in any environment
EnvNext == \E c \in Confs : Construct(c)

EnvSpec == EnvInit /\ [][EnvNext]_vars

(***************************************************************************)
(* check_gotest_util (plugin/testutil.py:217-228)                          *)
(***************************************************************************)

\* line 52: _DEBUG_CMD
DEBUG_CMD == FALSE

\* a `with` that enters without the lock
LockIgnored(t) == TRUE

\* RLock.acquire: the lock is free, or held by the thread itself
LockFree(t) == gotest_check_lock \in {"free", t}

\* a thread calls check_gotest_util(), directly or through a function that
\* requires_gotest_exe wraps (lines 390-396)
CheckCalled(t) ==
    /\ upc[t] = "idle"
    /\ ucalls < MaxUtilCalls
    /\ ucalls' = ucalls + 1
    /\ upc' = [upc EXCEPT ![t] = "acquire"]
    /\ UNCHANGED <<gotest_util_checked, gotest_util_installed,
                   gotest_check_lock, uout, checks>>
    /\ UNCHANGED <<parserVars, runnerVars>>

\* line 221: with _gotest_check_lock
LockAcquired(t) ==
    /\ upc[t] = "acquire"
    /\ LockFree(t)
    /\ gotest_check_lock' = t
    /\ upc' = [upc EXCEPT ![t] = "test"]
    /\ UNCHANGED <<gotest_util_checked, gotest_util_installed, uout, checks,
                   ucalls>>
    /\ UNCHANGED <<parserVars, runnerVars>>

\* line 222: if not _gotest_util_checked or _DEBUG_CMD
CheckedTested(t) ==
    /\ upc[t] = "test"
    /\ upc' = [upc EXCEPT ![t] = IF ~gotest_util_checked \/ DEBUG_CMD
                                  THEN "set" ELSE "release"]
    /\ UNCHANGED <<gotest_util_checked, gotest_util_installed,
                   gotest_check_lock, uout, checks, ucalls>>
    /\ UNCHANGED <<parserVars, runnerVars>>

\* line 223: _gotest_util_checked = True
CheckedSet(t) ==
    /\ upc[t] = "set"
    /\ gotest_util_checked' = TRUE
    /\ checks' = checks + 1
    /\ upc' = [upc EXCEPT ![t] = "should_build"]
    /\ UNCHANGED <<gotest_util_installed, gotest_check_lock, uout, ucalls>>
    /\ UNCHANGED <<parserVars, runnerVars>>

\* the `with` block is left by an exception: the lock is released, the
\* call raises
Raised(t) ==
    /\ gotest_check_lock' = "free"
    /\ upc' = [upc EXCEPT ![t] = "idle"]
    /\ uout' = [uout EXCEPT ![t] = "raised"]

\* line 225: _should_build_gotest_util(goexe) (lines 199-214). It returns
\* True ("build"), False ("fresh"), or raises when `go version` or the
\* installed binary cannot be run.
ShouldBuild(t, result) ==
    /\ upc[t] = "should_build"
    /\ IF result = "raises"
       THEN Raised(t)
       ELSE /\ upc' = [upc EXCEPT ![t] = IF result = "build" THEN "install"
                                         ELSE "release"]
            /\ UNCHANGED <<gotest_check_lock, uout>>
    /\ UNCHANGED <<gotest_util_checked, gotest_util_installed, checks, ucalls>>
    /\ UNCHANGED <<parserVars, runnerVars>>

\* lines 227-228: _install_gotest_util() (lines 163-195), then
\* _gotest_util_installed = True. The build that fails with a
\* CalledProcessError is logged (line 187) and the function returns; any
\* other exception, the RuntimeError of line 178 among them, is raised.
Install(t, result) ==
    /\ upc[t] = "install"
    /\ IF result = "raises"
       THEN Raised(t) /\ UNCHANGED gotest_util_installed
       ELSE /\ gotest_util_installed' = TRUE
            /\ upc' = [upc EXCEPT ![t] = "release"]
            /\ UNCHANGED <<gotest_check_lock, uout>>
    /\ UNCHANGED <<gotest_util_checked, checks, ucalls>>
    /\ UNCHANGED <<parserVars, runnerVars>>

\* the end of the `with` block: the lock is released, the call returns
LockReleased(t) ==
    /\ upc[t] = "release"
    /\ gotest_check_lock' = "free"
    /\ upc' = [upc EXCEPT ![t] = "idle"]
    /\ uout' = [uout EXCEPT ![t] = "returned"]
    /\ UNCHANGED <<gotest_util_checked, gotest_util_installed, checks, ucalls>>
    /\ UNCHANGED <<parserVars, runnerVars>>

UtilNext ==
    \/ \E t \in Callers : CheckCalled(t)
    \/ \E t \in Callers : LockAcquired(t)
    \/ \E t \in Callers : CheckedTested(t)
    \/ \E t \in Callers : CheckedSet(t)
    \/ \E t \in Callers :
           \E result \in {"build", "fresh", "raises"} : ShouldBuild(t, result)
    \/ \E t \in Callers :
           \E result \in {"built", "raises"} : Install(t, result)
    \/ \E t \in Callers : LockReleased(t)

UtilSpec == Init /\ [][UtilNext]_vars

(***************************************************************************)
(* The parser: properties                                                  *)
(***************************************************************************)

IsFromTestOutput(c) == c.op = "from_test_output"

\* the events that the lines of a text decode to
EventsOf(text) ==
    {from_json(text[i]).ev : i \in {j \in 1..Len(text) : from_json(text[j]).isEvent}}

TerminalActions == {"pass", "bench", "fail", "skip"}

\* the positions of the terminal events of a group
Terminals(evs) == {j \in 1..Len(evs) : evs[j].action \in TerminalActions}

\* C1: two calls of Test.from_test_output in succession, with the same text
\* and the same all_tests, return structurally identical lists of tests.
C1_SameTextSameResult ==
    (/\ IsFromTestOutput(prev) /\ IsFromTestOutput(last)
     /\ prev.text = last.text /\ prev.all_tests = last.all_tests)
    => (prev.raised = last.raised /\ prev.tests = last.tests)

\* C2: a RawTestOutput starts from an empty mapping: the groups a call builds
\* from a text hold only events decoded from that text, and so do its results.
C2_GroupsHoldOnlyOwnEvents ==
    last.op # "none" =>
        /\ \A i \in 1..Len(Groups(last.groups)) :
               \A j \in 1..Len(Groups(last.groups)[i]) :
                   Groups(last.groups)[i][j] \in EventsOf(last.text)
        /\ \A i \in 1..Len(last.tests) :
               \E e \in EventsOf(last.text) :
                   e.package = last.tests[i].package /\ e.test = last.tests[i].name

\* what the scenario of the specification is said to return
ScenarioResult(tests) ==
    /\ Len(tests) = 1
    /\ tests[1].name = "TestFoo"
    /\ tests[1].package = "demo"
    /\ tests[1].status = "fail"
    /\ Len(tests[1].failures) = 1
    /\ tests[1].failures[1].filename = "demo_test.go"
    /\ tests[1].failures[1].line = 10
    /\ tests[1].failures[1].combined_output
           = "expected 1, got 2\nextra detail line"

\* C6: for the event stream of the scenario, Test.from_test_output with
\* all_tests false returns exactly one test, TestFoo of package demo, failed,
\* with the one failure demo_test.go:10 and its de-indented text.
C6_ScenarioResult ==
    (IsFromTestOutput(last) /\ last.text = TextScenario /\ ~last.all_tests)
    => (~last.raised /\ ScenarioResult(last.tests))

\* The same on a mapping that no earlier call has filled.
ScenarioOnFreshMapping ==
    (/\ IsFromTestOutput(last) /\ last.text = TextScenario /\ ~last.all_tests
     /\ last.before = <<>>)
    => (~last.raised /\ ScenarioResult(last.tests))

IsFailWithFailures(tt) == tt.status = "fail" /\ tt.failures # <<>>

\* C8: with all_tests false Test.from_test_output returns exactly the tests,
\* of those made for the groups, that failed and have a failure; with
\* all_tests true it returns one test for every (package, test) group.
C8_FilterOfResults ==
    (IsFromTestOutput(last) /\ ~last.raised) =>
        /\ Len(last.made) = Len(Groups(last.groups))
        /\ IF last.all_tests
           THEN last.tests = last.made
           ELSE last.tests = SelectSeq(last.made, IsFailWithFailures)

\* a call with all_tests false that keeps a test and omits a failed test
\* that has no failure
C8_Witness ==
    /\ IsFromTestOutput(last) /\ ~last.raised /\ ~last.all_tests
    /\ Len(last.tests) >= 1
    /\ \E i \in 1..Len(last.made) :
           last.made[i].status = "fail" /\ last.made[i].failures = <<>>

\* C9: the status of a test is the action of the first terminal event of its
\* group; with exactly one terminal event, it is that event's action.
C9_StatusIsFirstTerminal ==
    IsFromTestOutput(last) =>
        \A i \in 1..Len(last.made) :
            LET evs == Groups(last.groups)[i]
            IN  /\ Terminals(evs) # {}
                /\ last.made[i].status = evs[Min(Terminals(evs))].action
                /\ \A j \in Terminals(evs) :
                       Terminals(evs) = {j} => last.made[i].status = evs[j].action

\* a call that made a test from a group whose only terminal event is its
\* first event (the one `del events[0]` removes), and a test from a group
\* whose only terminal event stands in the middle
C9_Witness ==
    /\ IsFromTestOutput(last)
    /\ \E i \in 1..Len(last.made) :
           /\ Terminals(Groups(last.groups)[i]) = {1}
           /\ Len(Groups(last.groups)[i]) > 1
    /\ \E i \in 1..Len(last.made) :
           /\ Terminals(Groups(last.groups)[i]) = {2}
           /\ Len(Groups(last.groups)[i]) > 2

\* C10: a group with no terminal event makes from_events raise before it
\* removes any event, and from_test_output raises, returning no list.
C10_NoTerminalRaises ==
    IsFromTestOutput(last) =>
        \A i \in 1..Len(Groups(last.groups)) :
            Terminals(Groups(last.groups)[i]) = {} =>
                /\ last.raised
                /\ last.tests = <<>>
                /\ Groups(last.after)[i] = Groups(last.groups)[i]

\* a call that made a test and then met a non-empty group with no terminal
\* event
C10_Witness ==
    /\ IsFromTestOutput(last) /\ last.raised
    /\ Len(last.made) >= 1
    /\ \E i \in 1..Len(Groups(last.groups)) :
           /\ Groups(last.groups)[i] # <<>>
           /\ Terminals(Groups(last.groups)[i]) = {}

(***************************************************************************)
(* The runner: properties                                                  *)
(***************************************************************************)

\* the run is over: __init__ raised, or the worker thread has ended
RunOver == obj = "raised" \/ worker = "done"

\* C3: whichever path a run takes (normal completion, timeout, kill(), a
\* command that cannot be launched), the callback is invoked exactly once.
C3_CallbackExactlyOnce ==
    /\ Len(cbLog) <= 1
    /\ RunOver => Len(cbLog) = 1

\* the worker stands in proc.wait() after a timeout, no kill() is under way
\* and no signal is on its way to the child
WaitsAfterTimeout ==
    /\ worker = "wait"
    /\ outcome.exc = "timeout"
    /\ \A k \in Killers : kpc[k] = "idle"
    /\ pending = {}

\* C4: when the timeout expires with the child still running, the worker
\* kills the child and the callback gets (None, timeout exception) exactly
\* once, and never a completed process: a worker that waits for the child
\* after a timeout waits for a child that was killed.
C4_TimeoutKillsChild ==
    /\ WaitsAfterTimeout => child = "exited"
    /\ \A i \in 1..Len(cbLog) :
           (\E j \in 1..Len(cbLog) : cbLog[j].exc = "timeout") =>
               (~cbLog[i].proc /\ Len(cbLog) = 1)

\* C5: a kill() that begins after a kill() on the same AsyncProcess has
\* returned sends no signal and raises nothing.
C5_SecondKillDoesNothing ==
    /\ \A i \in 1..Len(sigs) : ~sigs[i].late
    /\ \A i \in 1..Len(kerr) : ~kerr[i].late
    /\ returned > 0 => killed

\* a kill() that sent a signal has returned, and a second kill(), begun
\* after it, has returned too
C5_Witness ==
    /\ returned = 2
    /\ \E k \in Killers : klate[k] /\ kpc[k] = "idle"
    /\ \E i \in 1..Len(sigs) : sigs[i].by \in Killers

(***************************************************************************)
(* The parser: decoding, grouping and order                                *)
(***************************************************************************)

\* the positions of the non-empty lines of a text that fail to decode
Undecodable(text) ==
    {i \in 1..Len(text) : text[i].kind # "blank" /\ from_json(text[i]).raised}

\* C11: if a non-empty line of the text fails to decode, Test.from_test_output
\* raises: it returns no list, makes no Test and adds no event to a group.
C11_DecodeFailureRaises ==
    (IsFromTestOutput(last) /\ Undecodable(last.text) # {}) =>
        /\ last.raised
        /\ last.tests = <<>>
        /\ last.made = <<>>
        /\ last.after = last.before

\* a call on a text whose last line fails to decode, after lines that decode
\* to the events of a test that could have been returned
C11_Witness ==
    /\ IsFromTestOutput(last) /\ last.raised
    /\ \E i \in Undecodable(last.text) :
           /\ i > 1
           /\ \A j \in 1..(i - 1) : from_json(last.text[j]).isEvent
           /\ \E j \in 1..(i - 1) : last.text[j].Action = "fail"

\* every non-empty line of the text decodes to a TestEvent
AllDecode(text) ==
    \A i \in 1..Len(text) :
        text[i].kind # "blank" => from_json(text[i]).isEvent

\* the events RawTestOutput.from_events is given, in order
EventSeq(text) ==
    [i \in 1..Len(DecodeLines(text)) |-> DecodeLines(text)[i].ev]

\* the events of evs that have package p and test t, in order
Restrict(evs, p, t) ==
    LET HasKey(e) == e.package = p /\ e.test = t
    IN  SelectSeq(evs, HasKey)

\* the groups of call c are the restrictions of its input to their keys, no
\* group has a key without package or test, and every event that has both
\* is in a group
GroupsAreRestrictions(c) ==
    LET evs == EventSeq(c.text)
        ks == GroupKeys(c.groups)
    IN  /\ \A i \in 1..Len(ks) :
               LET p == c.groups[ks[i][1]].name
                   t == c.groups[ks[i][1]].tests[ks[i][2]].name
               IN  /\ p # None /\ t # None
                   /\ Groups(c.groups)[i] # <<>>
                   /\ Groups(c.groups)[i] = Restrict(evs, p, t)
        /\ \A j \in 1..Len(evs) :
               (evs[j].package # None /\ evs[j].test # None) =>
                   \E i \in 1..Len(ks) :
                       /\ c.groups[ks[i][1]].name = evs[j].package
                       /\ c.groups[ks[i][1]].tests[ks[i][2]].name = evs[j].test

\* C12: RawTestOutput.from_events puts an event without package or without
\* test in no group, and the list of every (package, test) group is the
\* input restricted to the events of that key, in the input's order.
C12_GroupsAreRestrictions ==
    (IsFromTestOutput(last) /\ AllDecode(last.text)) =>
        GroupsAreRestrictions(last)

\* The same on a mapping that no earlier call has filled.
GroupingOnFreshMapping ==
    (IsFromTestOutput(last) /\ AllDecode(last.text) /\ last.before = <<>>) =>
        GroupsAreRestrictions(last)

\* the position in evs of the first grouped event (one with package and
\* test) of package p, 0 when there is none
FirstOfPackage(evs, p) ==
    LET hits == {k \in 1..Len(evs) : evs[k].package = p /\ evs[k].test # None}
    IN  IF hits = {} THEN 0 ELSE Min(hits)

\* the position in evs of the first event of test t of package p
FirstOfTest(evs, p, t) ==
    LET hits == {k \in 1..Len(evs) : evs[k].package = p /\ evs[k].test = t}
    IN  IF hits = {} THEN 0 ELSE Min(hits)

\* result a stands before result b in the order of first occurrence
OccursBefore(evs, a, b) ==
    /\ FirstOfTest(evs, a.package, a.name) # 0
    /\ FirstOfTest(evs, b.package, b.name) # 0
    /\ IF a.package = b.package
       THEN FirstOfTest(evs, a.package, a.name)
                < FirstOfTest(evs, b.package, b.name)
       ELSE FirstOfPackage(evs, a.package) < FirstOfPackage(evs, b.package)

ResultsInStreamOrder(c) ==
    \A i, j \in 1..Len(c.tests) :
        i < j => OccursBefore(EventSeq(c.text), c.tests[i], c.tests[j])

\* C13: the results of Test.from_test_output are ordered by the first
\* occurrence of their package in the event stream and, within a package, by
\* the first occurrence of their test.
C13_ResultOrder ==
    (IsFromTestOutput(last) /\ ~last.raised) => ResultsInStreamOrder(last)

\* The same on a mapping that no earlier call has filled.
ResultOrderOnFreshMapping ==
    (IsFromTestOutput(last) /\ ~last.raised /\ last.before = <<>>) =>
        ResultsInStreamOrder(last)

\* a call that returns tests of two packages, two of them of one package
\* whose events are interleaved with those of the other package
ResultOrderCase ==
    /\ IsFromTestOutput(last) /\ ~last.raised /\ last.before = <<>>
    /\ \E i, j \in 1..Len(last.tests) :
           i < j /\ last.tests[i].package # last.tests[j].package
    /\ \E i, j \in 1..Len(last.tests) :
           i < j /\ last.tests[i].package = last.tests[j].package

\* the line spells an event object: a JSON object whose Action is one of the
\* eight tags
IsEventObject(line) == line.kind = "object" /\ line.Action \in TestAction

\* C14: TestEvent.from_json raises for every line that is not an event
\* object (not JSON, JSON that is not an object, an object without Action
\* or with an unknown Action), and never returns anything but a TestEvent.
C14_FromJsonRaisesOrEvent ==
    \A i \in 1..Len(last.text) :
        last.text[i].kind # "blank" =>
            /\ from_json(last.text[i]).raised \/ from_json(last.text[i]).isEvent
            /\ from_json(last.text[i]).raised <=> ~IsEventObject(last.text[i])

\* from_json raises for text that is not JSON and for an object whose Action
\* is missing or unknown, and returns a TestEvent for an event object
FromJsonOnObjects ==
    \A i \in 1..Len(last.text) :
        last.text[i].kind \in {"object", "invalid"} =>
            /\ from_json(last.text[i]).raised <=> ~IsEventObject(last.text[i])
            /\ from_json(last.text[i]).isEvent <=> IsEventObject(last.text[i])

(***************************************************************************)
(* The parser: the leading events of a group                               *)
(***************************************************************************)

\* the number of leading events from_events removes from the group evs
Dropped(evs) == IF TEST_UPDATE_RE(get_output(evs[1])) THEN 2 ELSE 1

\* e is an output event whose text is a failure-location line
IsLocationLine(e) ==
    e.action = "output" /\ FILENAME_LINE_FAILURE_RE(get_output(e))

IsOutput(e) == e.action = "output"

\* the events of evs after its first n
After(evs, n) == SubSeq(evs, n + 1, Len(evs))

RECURSIVE SumOutputs(_)
SumOutputs(failures) ==
    IF Len(failures) = 0 THEN 0
    ELSE Len(failures[1].output) + SumOutputs(Tail(failures))

\* the failures of test tt open at the failure-location lines that stand
\* after the removed events of its group evs, one failure for each, and
\* hold no more texts than the output events after the removed ones
FailuresSkipDropped(tt, evs) ==
    /\ Len(evs) >= Dropped(evs)
    /\ [k \in 1..Len(tt.failures) |-> tt.failures[k].output[1]]
           = [k \in 1..Len(SelectSeq(After(evs, Dropped(evs)), IsLocationLine))
                |-> get_output(SelectSeq(After(evs, Dropped(evs)),
                                         IsLocationLine)[k])]
    /\ SumOutputs(tt.failures)
           <= Len(SelectSeq(After(evs, Dropped(evs)), IsOutput))

\* C20: Test.from_events removes the first event of the group if and only if
\* its text matches the update pattern, then the new first event whatever
\* it is; a removed event opens no failure and adds nothing to one, even when
\* its text is a failure-location line.
C20_LeadingEventsRemoved ==
    IsFromTestOutput(last) =>
        \A i \in 1..Len(last.made) :
            FailuresSkipDropped(last.made[i], Groups(last.groups)[i])

\* a call on an empty mapping that made a test from a group whose first
\* event is a failure-location line (one event removed), and a test with a
\* failure from a group that begins with an update line followed by a
\* failure-location line (two events removed)
C20_Witness ==
    /\ IsFromTestOutput(last) /\ last.before = <<>>
    /\ \E i \in 1..Len(last.made) :
           /\ Dropped(Groups(last.groups)[i]) = 1
           /\ IsLocationLine(Groups(last.groups)[i][1])
    /\ \E i \in 1..Len(last.made) :
           /\ Dropped(Groups(last.groups)[i]) = 2
           /\ IsLocationLine(Groups(last.groups)[i][2])
           /\ last.made[i].failures # <<>>

(***************************************************************************)
(* The runner: completion, threads, signals, environment                   *)
(***************************************************************************)

\* the child ended by itself, with an exit code (a signal gives a negative
\* return code)
ExitedByItself == child = "exited" /\ rc >= 0

C16_CallbackOnWorkerThread ==
    /\ \A i \in 1..Len(cbLog) : cbLog[i].thread = "worker"
    /\ joined = "returned" => (worker = "done" /\ Len(cbLog) >= 1)

\* a kill() was called and has returned, the worker invoked the callback,
\* and then join() returned
C16_Witness ==
    /\ joined = "returned"
    /\ Len(cbLog) >= 1
    /\ returned >= 1 /\ \E i \in 1..Len(sigs) : sigs[i].by \in Killers

\* run() has returned: the worker thread is started, the child still runs
\* and no callback has been made
RunReturnedChildRuns ==
    worker = "communicate" /\ child = "running" /\ cbLog = <<>>

\* C17: kill() signals the child's process group first, and signals the
\* child alone only as a fallback: never after its signal to the group has
\* been sent.
C17_ChildOnlyAsFallback ==
    \A i \in 1..Len(sigs) :
        (sigs[i].to = "child" /\ sigs[i].by \in Killers) =>
            ~\E j \in 1..(i - 1) :
                   sigs[j].to = "group" /\ sigs[j].by = sigs[i].by

\* kill() tries the group before it signals the child alone
GroupBeforeChild ==
    \A k \in Killers :
        kpc[k] \in {"set", "killpg"} =>
            ~\E i \in 1..Len(sigs) : sigs[i].by = k /\ sigs[i].to = "child"

\* C18: the child's environment is os.environ with each key of the env
\* argument set to the given value, the user-home shorthand expanded; a
\* variable the caller does not override has exactly its inherited value.
C18_ChildEnvironment ==
    obj = "ok" =>
        /\ DOMAIN proc_env = DOMAIN environ \cup DOMAIN overrides.vars
        /\ \A k \in DOMAIN overrides.vars :
               proc_env[k] = expanduser(overrides.vars[k], Home)
        /\ \A k \in DOMAIN environ \ DOMAIN overrides.vars :
               proc_env[k] = environ[k]

\* the part of it about the keys of the env argument
OverridesExpanded ==
    obj = "ok" =>
        /\ DOMAIN proc_env = DOMAIN environ \cup DOMAIN overrides.vars
        /\ \A k \in DOMAIN overrides.vars :
               proc_env[k] = expanduser(overrides.vars[k], Home)
        /\ \A k \in DOMAIN environ \ DOMAIN overrides.vars :
               proc_env[k] = expanduser(environ[k], Home)

\* C19: on every path that ends a run the child has exited and been waited
\* for, and its pipes are closed, before the callback is invoked: no callback
\* is made, or about to be made, while the child runs.
C19_ReleasedBeforeCallback ==
    (worker \in {"callback", "done"} \/ Len(cbLog) >= 1) =>
        (child = "exited" /\ pipes = "closed")

\* the timeout expired, the worker sent SIGKILL and waited for the child,
\* the pipes are closed and the callback has been invoked
C19_Witness ==
    /\ Len(cbLog) >= 1
    /\ cbLog[1].exc = "timeout"
    /\ \E i \in 1..Len(sigs) : sigs[i].by = "worker"
    /\ pipes = "closed"

(***************************************************************************)
(* The parser: failures and their spans                                    *)
(***************************************************************************)

\* the failure-location events of the group evs that stand after its
\* removed leading events, in order
LocationEvents(evs) == SelectSeq(After(evs, Dropped(evs)), IsLocationLine)

\* failure f is the one that event e opens
OpenedBy(f, e) ==
    /\ f.filename = parse_line_error(get_output(e)).filename
    /\ f.line = parse_line_error(get_output(e)).line
    /\ f.failure = parse_line_error(get_output(e)).message
    /\ f.output[1] = get_output(e)

FailuresMatchLocations(tt, evs) ==
    /\ Len(tt.failures) = Len(LocationEvents(evs))
    /\ \A k \in 1..Len(tt.failures) :
           OpenedBy(tt.failures[k], LocationEvents(evs)[k])

\* C21: the failures of a test are, one for one and in order, the output
\* events of its group that stand after the removed leading events and
\* match the failure-location pattern; each failure holds the filename,
\* line and message of its event, and no other event opens a failure.
C21_FailuresAreLocationLines ==
    IsFromTestOutput(last) =>
        \A i \in 1..Len(last.made) :
            FailuresMatchLocations(last.made[i], Groups(last.groups)[i])

\* a test with two failures or more, made from a group that also holds
\* output events, after the removed ones, that open no failure
C21_Witness ==
    /\ IsFromTestOutput(last)
    /\ \E i \in 1..Len(last.made) :
           /\ Len(last.made[i].failures) >= 2
           /\ Len(SelectSeq(After(Groups(last.groups)[i],
                                  Dropped(Groups(last.groups)[i])), IsOutput))
                  > Len(last.made[i].failures) + 1

\* the position in evs of its k-th failure-location event
LocationPosition(evs, k) ==
    LET S == {j \in 1..Len(evs) : IsLocationLine(evs[j])}
    IN  CHOOSE j \in S : Cardinality({x \in S : x <= j}) = k

\* the position of the first boundary event of evs after position p,
\* Len(evs) + 1 when there is none
BoundaryAfter(evs, p) ==
    LET hits == {j \in (p + 1)..Len(evs) : IsBoundary(evs[j])}
    IN  IF hits = {} THEN Len(evs) + 1 ELSE Min(hits)

\* the span that opens at position p of evs: the text at p, then the texts
\* of the output events up to the next boundary, or to the end
SpanAt(evs, p) ==
    <<get_output(evs[p])>>
        \o OutputsOf(SubSeq(evs, p + 1, BoundaryAfter(evs, p) - 1))

MatchesAPattern(s) ==
    FILENAME_LINE_FAILURE_RE(s) \/ TEST_REPORT_RE(s) \/ TEST_UPDATE_RE(s)

\* the k-th failure of tt holds the span of the k-th failure-location event
\* of rest, and only its first text matches one of the three patterns
SpansEndAtBoundaries(tt, rest) ==
    \A k \in 1..Len(tt.failures) :
        /\ FILENAME_LINE_FAILURE_RE(tt.failures[k].output[1])
        /\ \A n \in 2..Len(tt.failures[k].output) :
               ~MatchesAPattern(tt.failures[k].output[n])
        /\ tt.failures[k].output = SpanAt(rest, LocationPosition(rest, k))

\* C22: in every failure output[0] matches the failure-location pattern and
\* no later element matches the failure-location, report or update pattern:
\* the span holds the texts of the following output events up to, and
\* without, the first output event that matches one of the three, and of
\* all that remain when there is none.
C22_SpansEndAtBoundaries ==
    IsFromTestOutput(last) =>
        \A i \in 1..Len(last.made) :
            /\ Len(last.made[i].failures)
                   = Len(LocationEvents(Groups(last.groups)[i]))
            /\ SpansEndAtBoundaries(
                   last.made[i],
                   After(Groups(last.groups)[i],
                         Dropped(Groups(last.groups)[i])))

\* a test whose first failure holds three texts and ends at an update line,
\* and whose last failure has no boundary after it
C22_Witness ==
    /\ IsFromTestOutput(last)
    /\ \E i \in 1..Len(last.made) :
           LET rest == After(Groups(last.groups)[i],
                             Dropped(Groups(last.groups)[i]))
               fs == last.made[i].failures
           IN  /\ Len(fs) >= 2
               /\ Len(fs[1].output) >= 3
               /\ BoundaryAfter(rest, LocationPosition(rest, 1)) <= Len(rest)
               /\ TEST_UPDATE_RE(get_output(
                      rest[BoundaryAfter(rest, LocationPosition(rest, 1))]))
               /\ BoundaryAfter(rest, LocationPosition(rest, Len(fs)))
                      = Len(rest) + 1

(***************************************************************************)
(* C23: the lines of combined_output                                       *)
(***************************************************************************)

RECURSIVE Spaces(_)
Spaces(n) == IF n = 0 THEN "" ELSE " " \o Spaces(n - 1)

\* the position of the first newline of s, 0 when it has none
FirstNL(s) ==
    LET hits == {i \in 1..Len(s) : SubSeq(s, i, i) = NL}
    IN  IF hits = {} THEN 0 ELSE Min(hits)

\* the lines of a joined text: s.split("\n")
RECURSIVE SplitNL(_)
SplitNL(s) ==
    IF FirstNL(s) = 0 THEN <<s>>
    ELSE <<SubSeq(s, 1, FirstNL(s) - 1)>> \o SplitNL(From(s, FirstNL(s) + 1))

\* the leading spaces of the first raw line, and four more
IndentPlusFour(first) == Spaces(RunLen(first, 1, {" "}) + 4)

\* out is raw without its trailing newlines, and without the prefix when
\* raw starts with it
IsDedentOf(out, raw, prefix) ==
    IF StartsWith(raw, prefix)
    THEN prefix \o out = RStripNL(raw)
    ELSE out = RStripNL(raw)

\* raw holds newlines at its end only
NewlinesAtEndOnly(raw) == FirstNL(RStripNL(raw)) = 0

\* the lines of f.combined_output are the raw lines of f.output, one for
\* one and in order, each dedented; the first, which never starts with the
\* prefix, is there without its trailing newlines and its file:line:
LinesAreDedented(f) ==
    LET lines == SplitNL(f.combined_output)
        prefix == IndentPlusFour(f.output[1])
    IN  /\ Len(lines) = Len(f.output)
        /\ ~StartsWith(f.output[1], prefix)
        /\ lines[1] = ReplaceFilenameLine(RStripNL(f.output[1]))
        /\ \A k \in 2..Len(f.output) :
               IsDedentOf(lines[k], f.output[k], prefix)

\* C23: with prefix the leading spaces of the first raw line plus four
\* spaces, combined_output holds one line for each raw line, in order,
\* joined by single newlines: a raw line that starts with the prefix is
\* there without exactly the prefix, every other raw line with its leading
\* whitespace as it was, and all without their trailing newlines (the
\* first line without its file:line: fragment in addition).
C23_LinesDedented ==
    IsFromTestOutput(last) =>
        \A i \in 1..Len(last.made) :
            \A k \in 1..Len(last.made[i].failures) :
                (\A n \in 1..Len(last.made[i].failures[k].output) :
                     NewlinesAtEndOnly(last.made[i].failures[k].output[n]))
                    => LinesAreDedented(last.made[i].failures[k])

\* a failure of three raw lines: one that starts with the prefix and ends
\* with two newlines, and one indented less than the prefix
C23_Witness ==
    /\ IsFromTestOutput(last)
    /\ \E i \in 1..Len(last.made) :
           \E k \in 1..Len(last.made[i].failures) :
               LET f == last.made[i].failures[k]
                   prefix == IndentPlusFour(f.output[1])
               IN  /\ Len(f.output) >= 3
                   /\ \A n \in 1..Len(f.output) : NewlinesAtEndOnly(f.output[n])
                   /\ \E n \in 2..Len(f.output) :
                          /\ StartsWith(f.output[n], prefix)
                          /\ Len(f.output[n]) - Len(RStripNL(f.output[n])) >= 2
                   /\ \E n \in 2..Len(f.output) :
                          /\ ~StartsWith(f.output[n], prefix)
                          /\ StartsWith(f.output[n], " ")

(***************************************************************************)
(* C24: concurrent invocations of kill() and _kill                         *)
(***************************************************************************)

\* the invocations that passed the check of `killed` and went on: the
\* threads in kill() after line 78, the worker in _kill after line 95
PastCheck ==
    {k \in Killers : kpc[k] # "idle"}
        \cup (IF worker \in {"kill_set", "kill_send"} THEN {"worker"} ELSE {})

\* the threads whose invocation sent a signal to the child
Signallers == {sigs[i].by : i \in DOMAIN sigs}

\* C24: however the calls of kill() and the worker's _kill interleave, the
\* check and the set of `killed` are passed by one invocation at most at a
\* time, and the signals the child was sent all come from one invocation.
C24_OneInvocationActs ==
    /\ Cardinality(PastCheck) <= 1
    /\ Cardinality(Signallers) <= 1

(***************************************************************************)
(* check_gotest_util: properties                                           *)
(***************************************************************************)

\* thread t is in the freshness check or the rebuild
Checking(t) == upc[t] \in {"should_build", "install"}

\* thread t is inside the `with` block
InBlock(t) == upc[t] \in {"test", "set", "should_build", "install", "release"}

\* a thread that waits for the lock while another thread checks is still
\* waiting after the step
WaitsForCheck ==
    \A t \in Callers :
        (upc[t] = "acquire" /\ \E s \in Callers \ {t} : Checking(s))
            => upc'[t] = "acquire"

\* C25: when several threads call check_gotest_util() (not in debug mode),
\* the freshness check and rebuild run once at most, never in two threads at
\* a time, and a thread that arrives while the check runs does not go on,
\* and so does not return, before the check is over.
C25_CheckRunsOnceUnderLock ==
    /\ [](~DEBUG_CMD =>
              /\ checks <= 1
              /\ Cardinality({t \in Callers : Checking(t)}) <= 1)
    /\ [][WaitsForCheck]_vars

\* one thread rebuilds while the other waits for the lock
C25_Witness ==
    \E s, t \in Callers :
        /\ s # t
        /\ upc[s] = "install"
        /\ upc[t] = "acquire"
        /\ checks = 1

\* C28: when the freshness check or the rebuild raises, the flag
\* _gotest_util_checked is not left set, so that the next call checks again.
C28_RaiseLeavesUnchecked ==
    (/\ \E t \in Callers : uout[t] = "raised"
     /\ \A t \in Callers : ~InBlock(t))
        => ~gotest_util_checked

(***************************************************************************)
(* C26: a callback that raises                                             *)
(***************************************************************************)

\* C26: the callback is not invoked again after an invocation that was
\* given a completed process, whether or not that invocation raised: an
\* invocation with a completed process is the last one.
C26_NoSecondInvocation ==
    \A i \in 1..Len(cbLog) : cbLog[i].proc => i = Len(cbLog)

(***************************************************************************)
(* C27: the callback after a timeout                                       *)
(***************************************************************************)

\* C27: once the timeout of a run has expired, the callback is invoked in
\* the end, whatever the child does and whether or not kill() was called
\* before, the child having ignored its signal or not.
C27_CallbackAfterTimeout ==
    (worker = "kill_check" /\ outcome.exc = "timeout") ~> (Len(cbLog) > 0)

(***************************************************************************)
(* C29: the spans of a test are disjoint                                   *)
(***************************************************************************)

\* the texts of all the failures, in order
RECURSIVE AllOutputs(_)
AllOutputs(failures) ==
    IF Len(failures) = 0 THEN <<>>
    ELSE failures[1].output \o AllOutputs(Tail(failures))

\* a is b with some elements left out: every element of a is matched, in
\* order, by an element of b of its own
RECURSIVE IsSubsequence(_, _)
IsSubsequence(a, b) ==
    IF Len(a) = 0 THEN TRUE
    ELSE IF Len(b) = 0 THEN FALSE
    ELSE IF a[1] = b[1] THEN IsSubsequence(Tail(a), Tail(b))
    ELSE IsSubsequence(a, Tail(b))

\* C29: within one test the spans of the failures are disjoint: the texts
\* of all its failures, taken together, are texts of different output
\* events of the test's group, so that no output event gives its text to
\* two failures, or twice to one.
C29_SpansDisjoint ==
    IsFromTestOutput(last) =>
        \A i \in 1..Len(last.made) :
            IsSubsequence(AllOutputs(last.made[i].failures),
                          OutputsOf(After(Groups(last.groups)[i],
                                          Dropped(Groups(last.groups)[i]))))

\* a test with two failures or more, one of them of two texts or more, whose
\* group holds output events that are in no failure
C29_Witness ==
    /\ IsFromTestOutput(last)
    /\ \E i \in 1..Len(last.made) :
           LET fs == last.made[i].failures
           IN  /\ Len(fs) >= 2
               /\ \E k \in 1..Len(fs) : Len(fs[k].output) >= 2
               /\ Len(AllOutputs(fs))
                      < Len(OutputsOf(After(Groups(last.groups)[i],
                                            Dropped(Groups(last.groups)[i]))))

(***************************************************************************)
(* C30: the message and the first line of combined_output                  *)
(***************************************************************************)

\* what FILENAME_LINE_FAILURE_RE matched in s before the message (group 3)
MatchedBeforeMessage(s) ==
    SubSeq(s, 1, LineNoEnd(s, FirstCand(FailureCands(s))[2] + 1) - 1)

\* what REPLACE_FILENAME_LINE_RE.sub("", s) took from the start of s
RemovedFragment(s) == SubSeq(s, 1, Len(s) - Len(ReplaceFilenameLine(s)))

\* C30: for a failure whose first raw line is one line, the first line of
\* combined_output is the failure's message, and what parse_combined_output
\* removed from that line is what the failure-location pattern matched
\* before the message.
C30_FirstLineIsMessage ==
    IsFromTestOutput(last) =>
        \A i \in 1..Len(last.made) :
            \A k \in 1..Len(last.made[i].failures) :
                NewlinesAtEndOnly(last.made[i].failures[k].output[1]) =>
                    /\ SplitNL(last.made[i].failures[k].combined_output)[1]
                           = last.made[i].failures[k].failure
                    /\ RemovedFragment(
                           RStripNL(last.made[i].failures[k].output[1]))
                           = MatchedBeforeMessage(
                                 last.made[i].failures[k].output[1])

====
